---- MODULE Spec2Model ----
(***************************************************************************)
(* Verification model of the authorization decision core:                  *)
(*   - the identity-preference aggregator, loadInfo, and its HTTP caller   *)
(*     UserInfoGet (internal/handlers/handler_user_info.go);               *)
(*   - the Regulation engine built by ServerVariablesInitializer.          *)
(***************************************************************************)
EXTENDS Integers, Sequences, FiniteSets, TLC

VARIABLES
    pc,           \* aggregator: control point of UserInfoGet/loadInfo ("main") and of the three goroutines
    wg,           \* aggregator: counter of the sync.WaitGroup
    errors,       \* aggregator: the shared []error slice of loadInfo
    preferences,  \* aggregator: the UserPreferences the goroutines fill in
    lookup,       \* aggregator: what each storage lookup returned to its goroutine
    snapshot,     \* aggregator: the value of errors a goroutine read inside append(errors, err)
    returned,     \* aggregator: the []error value loadInfo returned to UserInfoGet
    response,     \* aggregator: what UserInfoGet answered
    config,       \* regulation: config.regulation (max_retries, find_time, ban_time)
    history,      \* regulation: the Attempt Store, per username the AttemptRecords in append order
    now,          \* regulation: the clock
    lock,         \* regulation: per username, the request inside the read-then-append section
    req,          \* regulation: per login request its control point, username and IsBanned verdict
    ruleSet,      \* access control: the RuleSet (ordered rules and default policy) loaded at startup
    evals,        \* access control: per caller, the last Evaluate call and the policy it returned
    post,         \* MethodPreferencePost: per session, the handler's position, body and response
    stored2FA,    \* storage provider: per user, the preferred 2FA method it holds
    manager,      \* oidc: the KeyManager (activeKeyID, keys, keySet, strategy)
    kt,           \* oidc: per thread, the KeyManager call it is in and what the call returned
    tlsInput,     \* utils: the string TLSStringToTLSConfigVersion is called with
    tlsResult,    \* utils: what the call returned, once it has
    sources,      \* configuration: the paths NewDefaultSources was given and the slice it returned
    ko,           \* configuration: the target koanf the sources are merged into
    secrets       \* configuration: the SecretsSource (its koanf, its validator, its position)

aggVars == <<pc, wg, errors, preferences, lookup, snapshot, returned, response>>

regVars == <<config, history, now, lock, req>>

aclVars == <<ruleSet, evals>>
postVars == <<post, stored2FA>>
keyVars == <<manager, kt>>
tlsVars == <<tlsInput, tlsResult>>
srcVars == <<sources, ko, secrets>>

vars == <<pc, wg, errors, preferences, lookup, snapshot, returned, response,
          config, history, now, lock, req, ruleSet, evals, post, stored2FA, manager, kt,
          tlsInput, tlsResult, sources, ko, secrets>>

\* What the steps of one component leave alone: the state of the others.
otherThanInfo == <<regVars, aclVars, postVars, keyVars, tlsVars, srcVars>>
otherThanRegulation == <<aggVars, aclVars, postVars, keyVars, tlsVars, srcVars>>
otherThanAccessControl == <<aggVars, regVars, postVars, keyVars, tlsVars, srcVars>>
otherThanPost == <<aggVars, regVars, aclVars, keyVars, tlsVars, srcVars>>
otherThanKeys == <<aggVars, regVars, aclVars, postVars, tlsVars, srcVars>>
otherThanTLS == <<aggVars, regVars, aclVars, postVars, keyVars, srcVars>>
otherThanSources == <<aggVars, regVars, aclVars, postVars, keyVars, tlsVars>>

-----------------------------------------------------------------------------
(* Identity-preference aggregator: loadInfo                                 *)

Tasks == {"method", "u2f", "totp"}

\* authentication.PossibleMethods, the closed set of second-factor methods.
PossibleMethods == <<"totp", "u2f", "mobile_push">>

\* The sentinel errors of the storage package.
ErrNoU2FDeviceHandle == "ErrNoU2FDeviceHandle"
ErrNoTOTPSecret == "ErrNoTOTPSecret"

\* Any other failure of a lookup (store unreachable, decode failure), one per lookup.
StoreError(t) == "store error in " \o t

NoResult == [method |-> "", err |-> "pending"]

\* What storageProvider.LoadPreferred2FAMethod can return.
LoadPreferred2FAMethodResults ==
    {[method |-> m, err |-> "nil"] : m \in {"", "totp", "u2f", "mobile_push"}}
        \cup {[method |-> "", err |-> StoreError("method")]}

\* What storageProvider.LoadU2FDeviceHandle can return (the handle itself is discarded).
LoadU2FDeviceHandleResults ==
    {[method |-> "", err |-> e] : e \in {"nil", ErrNoU2FDeviceHandle, StoreError("u2f")}}

\* What storageProvider.LoadTOTPSecret can return (the secret itself is discarded).
LoadTOTPSecretResults ==
    {[method |-> "", err |-> e] : e \in {"nil", ErrNoTOTPSecret, StoreError("totp")}}

\* The message of every failure envelope of the handlers.
operationFailedMessage == "Operation failed."

\* A request context nothing has been written to: no envelope message, no
\* logged error, no body, no status.
NoResponse == [message |-> "", logged |-> <<>>, body |-> <<>>, ok |-> FALSE]

\* ctx.Error(err, message): err goes to the log, message to the client in the
\* failure envelope.
CtxError(resp, err, message) == [resp EXCEPT !.logged = err, !.message = message]

\* ctx.SetJSONBody(value)
SetJSONBody(resp, value) == [resp EXCEPT !.body = <<value>>, !.ok = TRUE]

\* ctx.ReplyOK()
ReplyOK(resp) == [resp EXCEPT !.ok = TRUE]

\* UserPreferences{} as UserInfoGet constructs it.
EmptyPreferences == [Method |-> "", HasU2F |-> FALSE, HasTOTP |-> FALSE]

InitInfo ==
    /\ pc = [p \in Tasks \cup {"main"} |-> IF p = "main" THEN "UserInfoGet" ELSE "unborn"]
    /\ wg = 0
    /\ errors = <<>>
    /\ preferences = EmptyPreferences
    /\ lookup = [t \in Tasks |-> NoResult]
    /\ snapshot = [t \in Tasks |-> <<>>]
    /\ returned = <<>>
    /\ response = NoResponse

\* UserInfoGet: preferences := UserPreferences{} and the call of loadInfo.
CallLoadInfo ==
    /\ pc["main"] = "UserInfoGet"
    /\ preferences' = EmptyPreferences
    /\ pc' = [pc EXCEPT !["main"] = "wg.Add"]
    /\ UNCHANGED <<wg, errors, lookup, snapshot, returned, response>>

\* A miscounted wg.Add: one goroutine fewer than are started.
WgAddCount_TwoOnly == Cardinality(Tasks) - 1

\* The number handed to wg.Add.
WgAddCount == 3

\* wg.Add(3); errors := make([]error, 0)
WgAdd ==
    /\ pc["main"] = "wg.Add"
    /\ wg' = wg + WgAddCount
    /\ errors' = <<>>
    /\ pc' = [pc EXCEPT !["main"] = "go method"]
    /\ UNCHANGED <<preferences, lookup, snapshot, returned, response>>

NextGo(t) ==
    CASE t = "method" -> "go u2f"
      [] t = "u2f" -> "go totp"
      [] t = "totp" -> "wg.Wait"

\* The three go statements, in program order.
Go(t) ==
    /\ pc["main"] = "go " \o t
    /\ pc[t] = "unborn"
    /\ pc' = [pc EXCEPT !["main"] = NextGo(t), ![t] = "lookup"]
    /\ UNCHANGED <<wg, errors, preferences, lookup, snapshot, returned, response>>

\* The branch without the sentinel comparisons: every error is appended.
AfterLookup_NoSentinel(t, r) ==
    IF r.err = "nil" THEN "set" ELSE "append read"

\* Where a goroutine goes after its lookup returned r.
AfterLookup(t, r) ==
    IF r.err = "nil" THEN "set"
    ELSE IF t = "u2f" /\ r.err = ErrNoU2FDeviceHandle THEN "deferred"
    ELSE IF t = "totp" /\ r.err = ErrNoTOTPSecret THEN "deferred"
    ELSE "append read"

\* First goroutine: method, err := storageProvider.LoadPreferred2FAMethod(username)
LoadPreferred2FAMethod ==
    /\ pc["method"] = "lookup"
    /\ \E r \in LoadPreferred2FAMethodResults :
        /\ lookup' = [lookup EXCEPT !["method"] = r]
        /\ pc' = [pc EXCEPT !["method"] = AfterLookup("method", r)]
    /\ UNCHANGED <<wg, errors, preferences, snapshot, returned, response>>

\* Second goroutine: _, _, err := storageProvider.LoadU2FDeviceHandle(username)
LoadU2FDeviceHandle ==
    /\ pc["u2f"] = "lookup"
    /\ \E r \in LoadU2FDeviceHandleResults :
        /\ lookup' = [lookup EXCEPT !["u2f"] = r]
        /\ pc' = [pc EXCEPT !["u2f"] = AfterLookup("u2f", r)]
    /\ UNCHANGED <<wg, errors, preferences, snapshot, returned, response>>

\* Third goroutine: _, err := storageProvider.LoadTOTPSecret(username)
LoadTOTPSecret ==
    /\ pc["totp"] = "lookup"
    /\ \E r \in LoadTOTPSecretResults :
        /\ lookup' = [lookup EXCEPT !["totp"] = r]
        /\ pc' = [pc EXCEPT !["totp"] = AfterLookup("totp", r)]
    /\ UNCHANGED <<wg, errors, preferences, snapshot, returned, response>>

\* errors = append(errors, err) holds no lock and is no atomic operation: the
\* goroutine first loads the slice ...
AppendRead(t) ==
    /\ pc[t] = "append read"
    /\ snapshot' = [snapshot EXCEPT ![t] = errors]
    /\ pc' = [pc EXCEPT ![t] = "append write"]
    /\ UNCHANGED <<wg, errors, preferences, lookup, returned, response>>

\* ... and then stores the slice it loaded, extended by its own error; after
\* logger.Error(err) it returns.
AppendWrite(t) ==
    /\ pc[t] = "append write"
    /\ errors' = Append(snapshot[t], lookup[t].err)
    /\ pc' = [pc EXCEPT ![t] = "deferred"]
    /\ UNCHANGED <<wg, preferences, lookup, snapshot, returned, response>>

\* The assignment without the default: the stored method as it is.
MethodOrDefault_NoDefault(method) == method

\* The value the first goroutine stores into preferences.Method:
\* if method == "" { PossibleMethods[0] } else { method }
MethodOrDefault(method) ==
    IF method = "" THEN PossibleMethods[1] ELSE method

\* The first goroutine giving up when another lookup has already failed.
SetMethod_CancelOnError ==
    /\ pc["method"] = "set"
    /\ preferences' = IF errors = <<>>
                      THEN [preferences EXCEPT !.Method = MethodOrDefault(lookup["method"].method)]
                      ELSE preferences
    /\ pc' = [pc EXCEPT !["method"] = "deferred"]
    /\ UNCHANGED <<wg, errors, lookup, snapshot, returned, response>>

\* First goroutine, no error: preferences.Method = ...
SetMethod ==
    /\ pc["method"] = "set"
    /\ preferences' = [preferences EXCEPT !.Method = MethodOrDefault(lookup["method"].method)]
    /\ pc' = [pc EXCEPT !["method"] = "deferred"]
    /\ UNCHANGED <<wg, errors, lookup, snapshot, returned, response>>

\* Second goroutine, no error: preferences.HasU2F = true
SetHasU2F ==
    /\ pc["u2f"] = "set"
    /\ preferences' = [preferences EXCEPT !.HasU2F = TRUE]
    /\ pc' = [pc EXCEPT !["u2f"] = "deferred"]
    /\ UNCHANGED <<wg, errors, lookup, snapshot, returned, response>>

\* The third goroutine writing the second goroutine's field.
SetHasTOTP_WritesHasU2F ==
    /\ pc["totp"] = "set"
    /\ preferences' = [preferences EXCEPT !.HasU2F = TRUE]
    /\ pc' = [pc EXCEPT !["totp"] = "deferred"]
    /\ UNCHANGED <<wg, errors, lookup, snapshot, returned, response>>

\* Third goroutine, no error: preferences.HasTOTP = true
SetHasTOTP ==
    /\ pc["totp"] = "set"
    /\ preferences' = [preferences EXCEPT !.HasTOTP = TRUE]
    /\ pc' = [pc EXCEPT !["totp"] = "deferred"]
    /\ UNCHANGED <<wg, errors, lookup, snapshot, returned, response>>

\* defer wg.Done(), run when the goroutine's function returns.
WgDone(t) ==
    /\ pc[t] = "deferred"
    /\ wg' = wg - 1
    /\ pc' = [pc EXCEPT ![t] = "finished"]
    /\ UNCHANGED <<errors, preferences, lookup, snapshot, returned, response>>

\* loadInfo without the barrier: it returns without waiting.
WgWaitUnblocked_NoWait == TRUE

\* wg.Wait() unblocks when the counter is zero.
WgWaitUnblocked == wg = 0

\* wg.Wait(); return errors
WgWaitReturn ==
    /\ pc["main"] = "wg.Wait"
    /\ WgWaitUnblocked
    /\ returned' = errors
    /\ pc' = [pc EXCEPT !["main"] = "loadInfo returned"]
    /\ UNCHANGED <<wg, errors, preferences, lookup, snapshot, response>>

\* fmt.Errorf("Unable to load user information")
LoadInfoError == <<"Unable to load user information">>

\* UserInfoGet without the return after ctx.Error: the body is set after all.
Respond_NoReturn ==
    /\ pc["main"] = "loadInfo returned"
    /\ response' = IF Len(returned) > 0
                   THEN SetJSONBody(CtxError(response, LoadInfoError,
                                             operationFailedMessage), preferences)
                   ELSE SetJSONBody(response, preferences)
    /\ pc' = [pc EXCEPT !["main"] = "responded"]
    /\ UNCHANGED <<wg, errors, preferences, lookup, snapshot, returned>>

\* UserInfoGet after loadInfo: the generic failure, or the preferences as JSON.
Respond ==
    /\ pc["main"] = "loadInfo returned"
    /\ response' = IF Len(returned) > 0
                   THEN CtxError(response, LoadInfoError, operationFailedMessage)
                   ELSE SetJSONBody(response, preferences)
    /\ pc' = [pc EXCEPT !["main"] = "responded"]
    /\ UNCHANGED <<wg, errors, preferences, lookup, snapshot, returned>>

NextInfo ==
    \/ CallLoadInfo /\ UNCHANGED otherThanInfo
    \/ WgAdd /\ UNCHANGED otherThanInfo
    \/ \E t \in Tasks : Go(t) /\ UNCHANGED otherThanInfo
    \/ LoadPreferred2FAMethod /\ UNCHANGED otherThanInfo
    \/ LoadU2FDeviceHandle /\ UNCHANGED otherThanInfo
    \/ LoadTOTPSecret /\ UNCHANGED otherThanInfo
    \/ \E t \in Tasks : AppendRead(t) /\ UNCHANGED otherThanInfo
    \/ \E t \in Tasks : AppendWrite(t) /\ UNCHANGED otherThanInfo
    \/ SetMethod /\ UNCHANGED otherThanInfo
    \/ SetHasU2F /\ UNCHANGED otherThanInfo
    \/ SetHasTOTP /\ UNCHANGED otherThanInfo
    \/ \E t \in Tasks : WgDone(t) /\ UNCHANGED otherThanInfo
    \/ WgWaitReturn /\ UNCHANGED otherThanInfo
    \/ Respond /\ UNCHANGED otherThanInfo

-----------------------------------------------------------------------------
(* Regulation engine: new Regulator(userDataStore, max_retries, find_time,  *)
(* ban_time), IsBanned, RecordAttempt and the login flow around them        *)

\* Bounds of the model: the last clock value and the number of attempts the
\* store holds over all users.
MaxTime == 2
MaxAttempts == 2

Users == {"john", "harry"}
Requests == {"r1", "r2"}

\* The configurations explored: max_retries >= 1, find_time and ban_time in clock units.
MaxRetriesChoices == {1, 2}
FindTimeChoices == {1, 2}
BanTimeChoices == {1, 2}

RegulationConfigs ==
    [max_retries : MaxRetriesChoices, find_time : FindTimeChoices, ban_time : BanTimeChoices]

\* The constructor call with find_time and ban_time handed over in each other's place.
NewRegulator_SwappedTimes(c) ==
    [maxRetries |-> c.max_retries, findTime |-> c.ban_time, banTime |-> c.find_time]

\* The constructor call with max_retries and find_time handed over in each other's place.
NewRegulator_SwappedCount(c) ==
    [maxRetries |-> c.find_time, findTime |-> c.max_retries, banTime |-> c.ban_time]

\* new Regulator(userDataStore, config.regulation.max_retries,
\*               config.regulation.find_time, config.regulation.ban_time)
NewRegulator(c) ==
    [maxRetries |-> c.max_retries, findTime |-> c.find_time, banTime |-> c.ban_time]

\* The regulator held by the ServerVariables.
regulator == NewRegulator(config)

\* bannedUntil when there is no ban.
NoTime == 0 - 1

NotBanned == [banned |-> FALSE, bannedUntil |-> NoTime]

\* An AttemptRecord of one user's history.
AttemptRecord(t, ok) == [timestamp |-> t, success |-> ok]

\* The qualifying window: the attempts with timestamp in [t - findTime, t].
QualifyingWindow(reg, h, t) ==
    SelectSeq(h, LAMBDA a : a.timestamp >= t - reg.findTime /\ a.timestamp <= t)

\* Consecutive failures counted back from the most recent attempt of w,
\* stopping at the first success.
RECURSIVE FailureStreak(_)
FailureStreak(w) ==
    IF w = <<>> THEN 0
    ELSE IF w[Len(w)].success THEN 0
    ELSE 1 + FailureStreak(SubSeq(w, 1, Len(w) - 1))

\* IsBanned(username, now) on the history h of username.
IsBanned(reg, h, t) ==
    LET w == QualifyingWindow(reg, h, t) IN
    IF FailureStreak(w) >= reg.maxRetries
    THEN LET until == w[Len(w)].timestamp + reg.banTime IN
         IF t <= until THEN [banned |-> TRUE, bannedUntil |-> until] ELSE NotBanned
    ELSE NotBanned

\* A login request that has not started: no IsBanned answer (verdict, err), no
\* response to the caller (outcome), and recordErr says whether RecordAttempt
\* met a store error.
IdleRequest ==
    [pc |-> "idle", user |-> "", at |-> NoTime, verdict |-> NotBanned, err |-> FALSE,
     outcome |-> "none", recordErr |-> FALSE]

\* A login request that has answered its caller.
DoneRequest(outcome, recordErr) ==
    [IdleRequest EXCEPT !.pc = "done", !.outcome = outcome, !.recordErr = recordErr]

\* The response of the first factor for credentials that are right (ok) or wrong.
CredentialsOutcome(ok) == IF ok THEN "authenticated" ELSE "rejected"

\* The state ServerVariablesInitializer.initialize leaves behind: a regulator
\* over an empty store.
InitRegulationWith(c) ==
    /\ config = c
    /\ history = [u \in Users |-> <<>>]
    /\ now = 0
    /\ lock = [u \in Users |-> "free"]
    /\ req = [r \in Requests |-> IdleRequest]

InitRegulation == \E c \in RegulationConfigs : InitRegulationWith(c)

\* Time passes.
Tick ==
    /\ now < MaxTime
    /\ now' = now + 1
    /\ UNCHANGED <<config, history, lock, req>>

\* A login flow that enters without taking the username's section.
SectionFree_Unserialized(u) == TRUE

\* The read-then-append sequence of one username is serialized: nobody else is inside.
SectionFree(u) == lock[u] = "free"

\* The number of records in the store.
RECURSIVE StoredAttempts(_)
StoredAttempts(us) ==
    IF us = {} THEN 0
    ELSE LET u == CHOOSE x \in us : TRUE IN Len(history[u]) + StoredAttempts(us \ {u})

\* A login request for username u enters the section of u.
BeginLogin(r, u) ==
    /\ req[r].pc = "idle"
    /\ SectionFree(u)
    /\ lock' = [lock EXCEPT ![u] = r]
    /\ req' = [req EXCEPT ![r] = [IdleRequest EXCEPT !.pc = "isBanned", !.user = u]]
    /\ UNCHANGED <<config, history, now>>

\* An IsBanned that writes an unban record (a success) once a ban has lapsed.
CallIsBanned_WritesUnban(r) ==
    LET u == req[r].user
        w == QualifyingWindow(regulator, history[u], now)
        v == IsBanned(regulator, history[u], now)
    IN /\ req[r].pc = "isBanned"
       /\ req' = [req EXCEPT ![r].pc = "checked", ![r].at = now, ![r].verdict = v]
       /\ history' = IF FailureStreak(w) >= regulator.maxRetries /\ ~v.banned
                      THEN [history EXCEPT ![u] = Append(@, AttemptRecord(now, TRUE))]
                      ELSE history
       /\ UNCHANGED <<config, now, lock>>

\* regulator.IsBanned(username, now): the history is read and the verdict computed.
CallIsBanned(r) ==
    /\ req[r].pc = "isBanned"
    /\ req' = [req EXCEPT ![r].pc = "checked", ![r].at = now,
                          ![r].verdict = IsBanned(regulator, history[req[r].user], now)]
    /\ UNCHANGED <<config, history, now, lock>>

\* regulator.IsBanned(username, now) when the store cannot be read: an error.
CallIsBannedStoreDown(r) ==
    /\ req[r].pc = "isBanned"
    /\ req' = [req EXCEPT ![r].pc = "checked", ![r].at = now, ![r].err = TRUE]
    /\ UNCHANGED <<config, history, now, lock>>

\* The section of u is left by r.
Release(r, u) == [lock EXCEPT ![u] = IF @ = r THEN "free" ELSE @]

\* A login flow that looks at the verdict only and takes an IsBanned error for "not banned".
MayProceed_IgnoresError(r) == ~req[r].verdict.banned

\* The login flow goes on to the credentials only on the answer "not banned".
MayProceed(r) == ~req[r].verdict.banned /\ ~req[r].err

\* Banned, or the verdict is an error: the login is denied and nothing is recorded.
Deny(r) ==
    /\ req[r].pc = "checked"
    /\ ~MayProceed(r)
    /\ lock' = Release(r, req[r].user)
    /\ req' = [req EXCEPT ![r] = DoneRequest("denied", FALSE)]
    /\ UNCHANGED <<config, history, now>>

\* RecordAttempt(username, success, timestamp): the record is appended.
RecordAttempt(u, ok, t) == [history EXCEPT ![u] = Append(@, AttemptRecord(t, ok))]

\* Not banned: the credentials are checked and the attempt is recorded.
Attempt(r, ok) ==
    /\ req[r].pc = "checked"
    /\ MayProceed(r)
    /\ StoredAttempts(Users) < MaxAttempts
    /\ history' = RecordAttempt(req[r].user, ok, now)
    /\ lock' = Release(r, req[r].user)
    /\ req' = [req EXCEPT ![r] = DoneRequest(CredentialsOutcome(ok), FALSE)]
    /\ UNCHANGED <<config, now>>

\* A store error while recording that is handed to the caller as a failure.
AttemptStoreDown_FailsCaller(r, ok) ==
    /\ req[r].pc = "checked"
    /\ MayProceed(r)
    /\ lock' = Release(r, req[r].user)
    /\ req' = [req EXCEPT ![r] = DoneRequest("error", TRUE)]
    /\ UNCHANGED <<config, history, now>>

\* Not banned, but the store fails while recording: the attempt is dropped.
AttemptStoreDown(r, ok) ==
    /\ req[r].pc = "checked"
    /\ MayProceed(r)
    /\ lock' = Release(r, req[r].user)
    /\ req' = [req EXCEPT ![r] = DoneRequest(CredentialsOutcome(ok), TRUE)]
    /\ UNCHANGED <<config, history, now>>

\* The response has been sent; the request is over.
Finish(r) ==
    /\ req[r].pc = "done"
    /\ req' = [req EXCEPT ![r] = IdleRequest]
    /\ UNCHANGED <<config, history, now, lock>>

NextRegulation ==
    \/ Tick /\ UNCHANGED otherThanRegulation
    \/ \E r \in Requests, u \in Users : BeginLogin(r, u) /\ UNCHANGED otherThanRegulation
    \/ \E r \in Requests : CallIsBanned(r) /\ UNCHANGED otherThanRegulation
    \/ \E r \in Requests : CallIsBannedStoreDown(r) /\ UNCHANGED otherThanRegulation
    \/ \E r \in Requests : Deny(r) /\ UNCHANGED otherThanRegulation
    \/ \E r \in Requests, ok \in BOOLEAN : Attempt(r, ok) /\ UNCHANGED otherThanRegulation
    \/ \E r \in Requests, ok \in BOOLEAN : AttemptStoreDown(r, ok) /\ UNCHANGED otherThanRegulation
    \/ \E r \in Requests : Finish(r) /\ UNCHANGED otherThanRegulation

-----------------------------------------------------------------------------
(* Access Control engine: new AccessController(config.access_control, ...)  *)
(* and Evaluate                                                            *)

\* Bound of the model: the longest rule list.
MaxRules == 2

\* The width of the addresses of the model, in bits.
AddrBits == 3

PolicyLevel == {"bypass", "one_factor", "two_factor", "deny"}

\* Hosts are label sequences, paths segment sequences.
SecureHost == <<"secure", "example", "com">>
PublicHost == <<"public", "example", "com">>
OtherHost == <<"example", "org">>

AnySubject == [kind |-> "any", name |-> ""]

\* A rule with a domain criterion only; the other criteria are absent.
DomainRule(wildcard, name, policy) ==
    [domain |-> [wildcard |-> wildcard, name |-> name], resources |-> {},
     subject |-> AnySubject, networks |-> {}, methods |-> {}, policy |-> policy]

\* The rules the configurations of the model are made of.
RulePool ==
    { DomainRule(FALSE, SecureHost, "two_factor"),
      DomainRule(FALSE, PublicHost, "bypass"),
      [DomainRule(TRUE, <<"example", "com">>, "one_factor")
          EXCEPT !.resources = {<<"admin">>}, !.subject = [kind |-> "group", name |-> "admins"]],
      [DomainRule(TRUE, <<"example", "com">>, "deny")
          EXCEPT !.subject = [kind |-> "user", name |-> "harry"]],
      [DomainRule(TRUE, <<"example", "com">>, "bypass")
          EXCEPT !.networks = {[base |-> 0, bits |-> 1]}],
      [DomainRule(TRUE, <<"example", "com">>, "deny")
          EXCEPT !.methods = {"POST"}] }

\* The rule lists of 1..n rules, no rule listed twice.
RuleLists(n) ==
    UNION {{l \in [1..k -> RulePool] : \A i, j \in 1..k : l[i] = l[j] => i = j} : k \in 1..n}

\* config.access_control: ordered rules and a default policy.
AccessControlConfigs ==
    [rules : RuleLists(MaxRules), default_policy : {"deny", "bypass"}]

\* The requests of the model: a GET from address 1 or a POST from address 6,
\* by each user, for each host and path.
AclRequests ==
    { q \in [domain : {SecureHost, PublicHost, OtherHost},
             path : {<<"admin", "users">>, <<"index">>},
             user : {[name |-> "john", groups |-> {"admins"}],
                     [name |-> "harry", groups |-> {"users"}]},
             ip : {1, 6},
             method : {"GET", "POST"}] : q.ip = 1 <=> q.method = "GET" }

Callers == {"c1", "c2"}

\* a is a suffix (b a prefix) of the sequence s.
IsSuffix(a, s) == Len(a) <= Len(s) /\ SubSeq(s, Len(s) - Len(a) + 1, Len(s)) = a
IsPrefix(b, s) == Len(b) <= Len(s) /\ SubSeq(s, 1, Len(b)) = b

RECURSIVE Pow2(_)
Pow2(n) == IF n = 0 THEN 1 ELSE 2 * Pow2(n - 1)

\* Domain match: the exact host, or a subdomain of a wildcard's name.
DomainMatches(d, host) ==
    IF d.wildcard THEN IsSuffix(d.name, host) /\ Len(host) > Len(d.name)
    ELSE host = d.name

\* Resource match: no pattern configured, or any pattern matches the path.
ResourcesMatch(patterns, path) ==
    patterns = {} \/ \E p \in patterns : IsPrefix(p, path)

\* Subject match: any, the exact username, or membership of the group.
SubjectMatches(sj, user) ==
    CASE sj.kind = "any" -> TRUE
      [] sj.kind = "user" -> user.name = sj.name
      [] sj.kind = "group" -> sj.name \in user.groups

\* Network match: any, or the address falls in one of the CIDR ranges.
NetworksMatch(cidrs, ip) ==
    cidrs = {} \/ \E c \in cidrs :
        ip \div Pow2(AddrBits - c.bits) = c.base \div Pow2(AddrBits - c.bits)

\* Method match: any, or the method is in the listed set.
MethodsMatch(methods, method) == methods = {} \/ method \in methods

\* A rule matches iff every present criterion matches the request.
RuleMatches(rule, q) ==
    /\ DomainMatches(rule.domain, q.domain)
    /\ ResourcesMatch(rule.resources, q.path)
    /\ SubjectMatches(rule.subject, q.user)
    /\ NetworksMatch(rule.networks, q.ip)
    /\ MethodsMatch(rule.methods, q.method)

\* new AccessController(config.access_control, deps.winston): the RuleSet is
\* the configured rule list, in its order, with the default policy.
NewAccessController(c) == [rules |-> c.rules, defaultPolicy |-> c.default_policy]

\* The strictness of a policy level.
Strictness(p) ==
    CASE p = "bypass" -> 0 [] p = "one_factor" -> 1 [] p = "two_factor" -> 2 [] p = "deny" -> 3

\* An engine in which the strictest matching rule wins.
RECURSIVE EvaluateFrom_StrictestWins(_, _, _)
EvaluateFrom_StrictestWins(rs, i, q) ==
    IF i > Len(rs.rules) THEN rs.defaultPolicy
    ELSE LET rest == EvaluateFrom_StrictestWins(rs, i + 1, q)
             later == \E j \in (i + 1)..Len(rs.rules) : RuleMatches(rs.rules[j], q)
         IN IF ~RuleMatches(rs.rules[i], q) THEN rest
            ELSE IF later /\ Strictness(rest) > Strictness(rs.rules[i].policy) THEN rest
            ELSE rs.rules[i].policy

\* The rules are tried in their order from position i on; the first rule that
\* matches decides, and without a match the default policy does.
RECURSIVE EvaluateFrom(_, _, _)
EvaluateFrom(rs, i, q) ==
    IF i > Len(rs.rules) THEN rs.defaultPolicy
    ELSE IF RuleMatches(rs.rules[i], q) THEN rs.rules[i].policy
    ELSE EvaluateFrom(rs, i + 1, q)

\* Evaluate(subject, resourcePath, network, method) -> PolicyLevel
Evaluate(rs, q) == EvaluateFrom(rs, 1, q)

NoEvaluation ==
    [called |-> FALSE,
     request |-> [domain |-> <<>>, path |-> <<>>, user |-> [name |-> "", groups |-> {}],
                  ip |-> 0, method |-> ""],
     policy |-> ""]

InitAccessControlWith(c) ==
    /\ ruleSet = NewAccessController(c)
    /\ evals = [c1 \in Callers |-> NoEvaluation]

InitAccessControl == \E c \in AccessControlConfigs : InitAccessControlWith(c)

\* An engine that moves the rule that matched to the front of its list.
EvaluateCall_MoveToFront(c, q) ==
    LET hits == {i \in 1..Len(ruleSet.rules) : RuleMatches(ruleSet.rules[i], q)}
        last == IF hits = {} THEN 0 ELSE CHOOSE i \in hits : \A j \in hits : j <= i
    IN /\ evals' = [evals EXCEPT ![c] = [called |-> TRUE, request |-> q,
                                        policy |-> Evaluate(ruleSet, q)]]
       /\ ruleSet' = IF last = 0 THEN ruleSet
                     ELSE [ruleSet EXCEPT !.rules =
                             <<ruleSet.rules[last]>> \o
                             SelectSeq(ruleSet.rules, LAMBDA x : x # ruleSet.rules[last])]

\* One caller evaluates one request; callers interleave freely.
EvaluateCall(c, q) ==
    /\ evals' = [evals EXCEPT ![c] = [called |-> TRUE, request |-> q,
                                     policy |-> Evaluate(ruleSet, q)]]
    /\ UNCHANGED ruleSet

NextAccessControl ==
    \E c \in Callers, q \in AclRequests : EvaluateCall(c, q) /\ UNCHANGED otherThanAccessControl

-----------------------------------------------------------------------------
(* MethodPreferencePost: POST /api/user/info/2fa_method                     *)

Sessions == {"john", "harry"}

\* The request bodies of the model: bytes that are no JSON, and JSON objects
\* with a method field that is absent (""), supported, or not supported.
Bodies ==
    {[json |-> FALSE, method |-> ""]} \cup
    {[json |-> TRUE, method |-> m] : m \in {"", "totp", "u2f", "mobile_push", "sms", "TOTP"}}

\* ctx.ParseBody(&bodyJSON): the body is unmarshalled and then validated
\* against the struct tags; Method is `valid:"required"`.
ParseBody(body) ==
    IF ~body.json THEN [err |-> "unable to parse body", Method |-> ""]
    ELSE IF body.method = "" THEN [err |-> "method: non zero value required", Method |-> ""]
    ELSE [err |-> "nil", Method |-> body.method]

\* utils.IsStringInSlice(a, list)
IsStringInSlice(a, list) == \E i \in 1..Len(list) : list[i] = a

\* fmt.Errorf("Unknown method '%s', it should be one of %s", ...)
UnknownMethodError(m) == <<"Unknown method", m>>

\* fmt.Errorf("Unable to save new preferred 2FA method: %s", err)
SaveError == <<"Unable to save new preferred 2FA method">>

IdlePost == [pc |-> "idle", body |-> [json |-> FALSE, method |-> ""], Method |-> "",
             response |-> NoResponse]

InitPost ==
    /\ post = [u \in Sessions |-> IdlePost]
    /\ stored2FA = [u \in Sessions |-> ""]

\* A request of the session's user arrives: bodyJSON := MethodBody{}.
PostRequest(u, body) ==
    /\ post[u].pc = "idle"
    /\ post' = [post EXCEPT ![u] = [IdlePost EXCEPT !.pc = "ParseBody", !.body = body]]
    /\ UNCHANGED stored2FA

\* err := ctx.ParseBody(&bodyJSON); if err != nil { ctx.Error(err, ...); return }
ParseBodyStep(u) ==
    /\ post[u].pc = "ParseBody"
    /\ LET parsed == ParseBody(post[u].body)
       IN post' = [post EXCEPT ![u] =
                     IF parsed.err # "nil"
                     THEN [@ EXCEPT !.pc = "replied",
                                    !.response = CtxError(@, <<parsed.err>>, operationFailedMessage)]
                     ELSE [@ EXCEPT !.pc = "IsStringInSlice", !.Method = parsed.Method]]
    /\ UNCHANGED stored2FA

\* The handler without the check of the method against PossibleMethods.
Validate_Skipped(u) ==
    /\ post[u].pc = "IsStringInSlice"
    /\ post' = [post EXCEPT ![u].pc = "SavePreferred2FAMethod"]
    /\ UNCHANGED stored2FA

\* if !utils.IsStringInSlice(bodyJSON.Method, authentication.PossibleMethods) {
\*     ctx.Error(fmt.Errorf("Unknown method ..."), operationFailedMessage); return }
Validate(u) ==
    /\ post[u].pc = "IsStringInSlice"
    /\ post' = [post EXCEPT ![u] =
                  IF ~IsStringInSlice(post[u].Method, PossibleMethods)
                  THEN [@ EXCEPT !.pc = "replied",
                                 !.response = CtxError(@, UnknownMethodError(post[u].Method),
                                                       operationFailedMessage)]
                  ELSE [@ EXCEPT !.pc = "SavePreferred2FAMethod"]]
    /\ UNCHANGED stored2FA

\* SavePreferred2FAMethod(userSession.Username, bodyJSON.Method) returns nil
\* and the method is stored; ctx.ReplyOK().
SaveOK(u) ==
    /\ post[u].pc = "SavePreferred2FAMethod"
    /\ stored2FA' = [stored2FA EXCEPT ![u] = post[u].Method]
    /\ post' = [post EXCEPT ![u].pc = "replied", ![u].response = ReplyOK(@)]

\* SavePreferred2FAMethod returns an error and nothing is stored;
\* ctx.Error(fmt.Errorf("Unable to save ..."), operationFailedMessage).
SaveFails(u) ==
    /\ post[u].pc = "SavePreferred2FAMethod"
    /\ post' = [post EXCEPT ![u].pc = "replied",
                            ![u].response = CtxError(@, SaveError, operationFailedMessage)]
    /\ UNCHANGED stored2FA

\* The response has been sent; the session can post again.
PostDone(u) ==
    /\ post[u].pc = "replied"
    /\ post' = [post EXCEPT ![u] = IdlePost]
    /\ UNCHANGED stored2FA

NextPost ==
    \/ \E u \in Sessions, body \in Bodies : PostRequest(u, body) /\ UNCHANGED otherThanPost
    \/ \E u \in Sessions : ParseBodyStep(u) /\ UNCHANGED otherThanPost
    \/ \E u \in Sessions : Validate(u) /\ UNCHANGED otherThanPost
    \/ \E u \in Sessions : SaveOK(u) /\ UNCHANGED otherThanPost
    \/ \E u \in Sessions : SaveFails(u) /\ UNCHANGED otherThanPost
    \/ \E u \in Sessions : PostDone(u) /\ UNCHANGED otherThanPost

-----------------------------------------------------------------------------
(* oidc.KeyManager: NewKeyManager, AddActiveKeyData, AddActiveKey and the   *)
(* getters of the active key                                               *)

Threads == {"t1", "t2"}

\* The rsa private keys of the model.
PrivateKeys == {"k1", "k2", "k3"}

\* The PEM strings of the model: one per key, and one that is no key.
PemData == {<<"PEM", k>> : k \in PrivateKeys} \cup {<<"garbage">>}

\* utils.ParseRsaPrivateKeyFromPemStr(data)
ParseRsaPrivateKeyFromPemStr(data) ==
    IF Len(data) = 2 /\ data[1] = "PEM" THEN [key |-> data[2], err |-> "nil"]
    ELSE [key |-> "", err |-> "failed to parse PEM block containing the key"]

\* key.PublicKey
PublicKey(key) == <<"public", key>>

\* string(wk.Thumbprint(crypto.SHA256)): distinct keys have distinct thumbprints.
Thumbprint(key) == <<"sha256", PublicKey(key)>>

\* The jose.JSONWebKey AddActiveKey builds for a key, with its KeyID set.
WebKey(key) ==
    [Key |-> PublicKey(key), Algorithm |-> "RS256", Use |-> "sig", KeyID |-> Thumbprint(key)]

\* new(KeyManager) with the empty map and key set NewKeyManager gives it.
EmptyManager ==
    [constructed |-> FALSE, activeKeyID |-> <<>>, keys |-> <<>>, keySet |-> <<>>,
     strategy |-> [keyID |-> <<>>, PrivateKey |-> ""]]

\* The registry m.keys is a list of (id, key) entries, one entry per id.
HasKey(keys, id) == \E i \in 1..Len(keys) : keys[i].id = id
KeyOf(keys, id) == keys[CHOOSE i \in 1..Len(keys) : keys[i].id = id].key

\* m.keys[id] = key
PutKey(keys, id, key) ==
    IF HasKey(keys, id)
    THEN [i \in 1..Len(keys) |-> IF keys[i].id = id THEN [id |-> id, key |-> key] ELSE keys[i]]
    ELSE Append(keys, [id |-> id, key |-> key])

\* m.keySet.Key(kid): the web keys of the set with that key id.
KeySetKey(keySet, kid) == SelectSeq(keySet, LAMBDA wk : wk.KeyID = kid)

\* GetActiveKeyID
GetActiveKeyID(m) == m.activeKeyID

\* GetActivePrivateKey
GetActivePrivateKey(m) ==
    IF HasKey(m.keys, m.activeKeyID)
    THEN [value |-> <<KeyOf(m.keys, m.activeKeyID)>>, err |-> "nil"]
    ELSE [value |-> <<>>, err |-> "failed to retrieve active key"]

\* GetActiveKey
GetActiveKey(m) ==
    IF HasKey(m.keys, m.activeKeyID)
    THEN [value |-> <<PublicKey(KeyOf(m.keys, m.activeKeyID))>>, err |-> "nil"]
    ELSE [value |-> <<>>, err |-> "failed to retrieve active key"]

\* GetActiveWebKey
GetActiveWebKey(m) ==
    LET webKeys == KeySetKey(m.keySet, m.activeKeyID)
    IN IF Len(webKeys) = 1 THEN [value |-> <<webKeys[1]>>, err |-> "nil"]
       ELSE IF Len(webKeys) = 0
       THEN [value |-> <<>>, err |-> "could not find a key with the active key id"]
       ELSE [value |-> <<webKeys[1]>>, err |-> "multiple keys with the same key id"]

\* AddActiveKey run to its end on a manager no other thread has: the manager
\* after the call, and what the call returns.
AddActiveKeyAlone(m, key) ==
    IF HasKey(m.keys, Thumbprint(key))
    THEN [m |-> m, webKey |-> <<>>, err |-> "key id already exists"]
    ELSE [m |-> [m EXCEPT !.keySet = Append(m.keySet, WebKey(key)),
                          !.keys = PutKey(m.keys, Thumbprint(key), key)],
          webKey |-> <<WebKey(key)>>, err |-> "nil"]

\* NewRS256JWTStrategy(id, key): strategy.SetKey(id, key)
NewRS256JWTStrategy(id, key) == [keyID |-> id, PrivateKey |-> key]

\* A thread outside any call; read holds the m.keySet.Keys an append has loaded.
IdleThread ==
    [pc |-> "idle", op |-> "", key |-> "", read |-> <<>>, ret |-> [value |-> <<>>, err |-> ""]]

Returned(op, key, value, err) ==
    [IdleThread EXCEPT !.pc = "returned", !.op = op, !.key = key,
                       !.ret = [value |-> value, err |-> err]]

InitKeys ==
    /\ manager = EmptyManager
    /\ kt = [t \in Threads |-> IdleThread]

\* NewKeyManager(configuration): the manager is built by one thread before
\* any other can reach it; on an error no manager is returned.
NewKeyManager(data) ==
    /\ ~manager.constructed
    /\ LET parsed == ParseRsaPrivateKeyFromPemStr(data)
           added == AddActiveKeyAlone(EmptyManager, parsed.key)
       IN manager' = IF parsed.err # "nil" \/ added.err # "nil" THEN EmptyManager
                     ELSE [added.m EXCEPT !.constructed = TRUE,
                                          !.strategy = NewRS256JWTStrategy(added.webKey[1].KeyID,
                                                                           parsed.key)]
    /\ UNCHANGED kt

\* AddActiveKey without the existence check.
AddActiveKeyCheck_NoCheck(t, op, key) ==
    /\ manager.constructed
    /\ kt[t].pc = "idle"
    /\ kt' = [kt EXCEPT ![t] = [IdleThread EXCEPT !.pc = "AddActiveKey: load m.keySet.Keys",
                                                 !.op = op, !.key = key]]
    /\ UNCHANGED manager

\* AddActiveKey(key), up to the existence check: the thumbprint is computed
\* and a key id the registry already has is refused.
AddActiveKeyCheck(t, op, key) ==
    /\ manager.constructed
    /\ kt[t].pc = "idle"
    /\ kt' = [kt EXCEPT ![t] =
                IF HasKey(manager.keys, Thumbprint(key))
                THEN Returned(op, key, <<>>, "key id already exists")
                ELSE [IdleThread EXCEPT !.pc = "AddActiveKey: load m.keySet.Keys",
                                        !.op = op, !.key = key]]
    /\ UNCHANGED manager

\* AddActiveKey(key) called by a thread.
AddActiveKey(t, key) == AddActiveKeyCheck(t, "AddActiveKey", key)

\* AddActiveKeyData(data): the PEM string is parsed and AddActiveKey called.
AddActiveKeyData(t, data) ==
    LET parsed == ParseRsaPrivateKeyFromPemStr(data)
    IN IF parsed.err # "nil"
       THEN /\ manager.constructed
            /\ kt[t].pc = "idle"
            /\ kt' = [kt EXCEPT ![t] = Returned("AddActiveKeyData", "", <<>>, parsed.err)]
            /\ UNCHANGED manager
       ELSE AddActiveKeyCheck(t, "AddActiveKeyData", parsed.key)

\* append(m.keySet.Keys, wk): the slice is loaded; no mutex is held.
AddActiveKeyLoad(t) ==
    /\ kt[t].pc = "AddActiveKey: load m.keySet.Keys"
    /\ kt' = [kt EXCEPT ![t].pc = "AddActiveKey: append(m.keySet.Keys, wk)",
                        ![t].read = manager.keySet]
    /\ UNCHANGED manager

\* m.keySet.Keys = append(...): the loaded slice with wk appended is stored.
AddActiveKeyAppend(t) ==
    /\ kt[t].pc = "AddActiveKey: append(m.keySet.Keys, wk)"
    /\ manager' = [manager EXCEPT !.keySet = Append(kt[t].read, WebKey(kt[t].key))]
    /\ kt' = [kt EXCEPT ![t].pc = "AddActiveKey: m.keys[strKeyID] = key", ![t].read = <<>>]

\* Two threads write the map m.keys at once: the runtime ends the process
\* with "fatal error: concurrent map writes".
AddActiveKeyStoreFatal(t) ==
    /\ kt[t].pc = "AddActiveKey: m.keys[strKeyID] = key"
    /\ \E u \in Threads \ {t} : kt[u].pc = "AddActiveKey: m.keys[strKeyID] = key"
    /\ kt' = [u \in Threads |-> [IdleThread EXCEPT !.pc = "fatal error"]]
    /\ UNCHANGED manager

\* m.keys[strKeyID] = key; return &wk, nil
AddActiveKeyStore(t) ==
    /\ kt[t].pc = "AddActiveKey: m.keys[strKeyID] = key"
    /\ manager' = [manager EXCEPT !.keys = PutKey(@, Thumbprint(kt[t].key), kt[t].key)]
    /\ kt' = [kt EXCEPT ![t] = Returned(kt[t].op, kt[t].key, <<WebKey(kt[t].key)>>, "nil")]

\* A thread calls one of the getters of the active key.
CallGetter(t, op) ==
    /\ manager.constructed
    /\ kt[t].pc = "idle"
    /\ LET r == CASE op = "GetActiveKeyID" -> [value |-> <<GetActiveKeyID(manager)>>, err |-> "nil"]
                  [] op = "GetActivePrivateKey" -> GetActivePrivateKey(manager)
                  [] op = "GetActiveKey" -> GetActiveKey(manager)
                  [] op = "GetActiveWebKey" -> GetActiveWebKey(manager)
       IN kt' = [kt EXCEPT ![t] = Returned(op, "", r.value, r.err)]
    /\ UNCHANGED manager

Getters == {"GetActiveKeyID", "GetActivePrivateKey", "GetActiveKey", "GetActiveWebKey"}

\* The caller has its result and goes on.
KeyCallOver(t) ==
    /\ kt[t].pc = "returned"
    /\ kt' = [kt EXCEPT ![t] = IdleThread]
    /\ UNCHANGED manager

NextKeys ==
    \/ \E data \in PemData : NewKeyManager(data) /\ UNCHANGED otherThanKeys
    \/ \E t \in Threads, key \in PrivateKeys : AddActiveKey(t, key) /\ UNCHANGED otherThanKeys
    \/ \E t \in Threads, data \in PemData : AddActiveKeyData(t, data) /\ UNCHANGED otherThanKeys
    \/ \E t \in Threads : AddActiveKeyLoad(t) /\ UNCHANGED otherThanKeys
    \/ \E t \in Threads : AddActiveKeyAppend(t) /\ UNCHANGED otherThanKeys
    \/ \E t \in Threads : AddActiveKeyStoreFatal(t) /\ UNCHANGED otherThanKeys
    \/ \E t \in Threads : AddActiveKeyStore(t) /\ UNCHANGED otherThanKeys
    \/ \E t \in Threads, op \in Getters : CallGetter(t, op) /\ UNCHANGED otherThanKeys
    \/ \E t \in Threads : KeyCallOver(t) /\ UNCHANGED otherThanKeys

\* No other thread is inside a KeyManager call.
SoleCaller(t) == \A u \in Threads \ {t} : kt[u].pc \in {"idle", "returned"}

\* The calls of a sequential run: a call begins only when no other is under way.
NextKeysSequential ==
    \/ \E data \in PemData : NewKeyManager(data) /\ UNCHANGED otherThanKeys
    \/ \E t \in Threads, key \in PrivateKeys :
          SoleCaller(t) /\ AddActiveKey(t, key) /\ UNCHANGED otherThanKeys
    \/ \E t \in Threads, data \in PemData :
          SoleCaller(t) /\ AddActiveKeyData(t, data) /\ UNCHANGED otherThanKeys
    \/ \E t \in Threads : AddActiveKeyLoad(t) /\ UNCHANGED otherThanKeys
    \/ \E t \in Threads : AddActiveKeyAppend(t) /\ UNCHANGED otherThanKeys
    \/ \E t \in Threads : AddActiveKeyStore(t) /\ UNCHANGED otherThanKeys
    \/ \E t \in Threads, op \in Getters :
          SoleCaller(t) /\ CallGetter(t, op) /\ UNCHANGED otherThanKeys
    \/ \E t \in Threads : KeyCallOver(t) /\ UNCHANGED otherThanKeys

-----------------------------------------------------------------------------
(* utils.TLSStringToTLSConfigVersion                                       *)

\* crypto/tls: VersionTLS10 .. VersionTLS13
VersionTLS10 == 769
VersionTLS11 == 770
VersionTLS12 == 771
VersionTLS13 == 772

\* Strings are character sequences. The version strings of the utils package:
TLS10 == <<"1", ".", "0">>
TLS11 == <<"1", ".", "1">>
TLS12 == <<"1", ".", "2">>
TLS13 == <<"1", ".", "3">>

\* The prefix the tests put before a version string.
TLSPrefix == <<"T", "L", "S">>

ErrTLSVersionNotSupported == "supplied TLS version isn't supported"

\* The strings of the model: a prefix, or none, followed by a version, or none.
TLSInputs ==
    { p \o v : p \in {<<>>, TLSPrefix, <<"t", "l", "s">>, <<"S", "S", "L">>,
                     <<"T", "L", "S", "v">>, <<"T", "L", "S", " ">>},
              v \in {TLS10, TLS11, TLS12, TLS13, <<"1", ".", "4">>, <<"3", ".", "0">>,
                     <<"2", ".", "0">>, <<"1">>, <<>>} }

\* A conversion that falls back on TLS 1.2 for a string it does not know.
TLSStringToTLSConfigVersion_DefaultsTo12(input) ==
    CASE input = TLSPrefix \o TLS13 \/ input = TLS13 -> [version |-> VersionTLS13, err |-> "nil"]
      [] input = TLSPrefix \o TLS11 \/ input = TLS11 -> [version |-> VersionTLS11, err |-> "nil"]
      [] input = TLSPrefix \o TLS10 \/ input = TLS10 -> [version |-> VersionTLS10, err |-> "nil"]
      [] OTHER -> [version |-> VersionTLS12, err |-> "nil"]

\* TLSStringToTLSConfigVersion(input string) (version uint16, err error)
TLSStringToTLSConfigVersion(input) ==
    CASE input = TLSPrefix \o TLS13 \/ input = TLS13 -> [version |-> VersionTLS13, err |-> "nil"]
      [] input = TLSPrefix \o TLS12 \/ input = TLS12 -> [version |-> VersionTLS12, err |-> "nil"]
      [] input = TLSPrefix \o TLS11 \/ input = TLS11 -> [version |-> VersionTLS11, err |-> "nil"]
      [] input = TLSPrefix \o TLS10 \/ input = TLS10 -> [version |-> VersionTLS10, err |-> "nil"]
      [] OTHER -> [version |-> 0, err |-> ErrTLSVersionNotSupported]

NoTLSResult == [returned |-> FALSE, version |-> 0, err |-> ""]

InitTLSWith(input) ==
    /\ tlsInput = input
    /\ tlsResult = NoTLSResult

InitTLS == \E input \in TLSInputs : InitTLSWith(input)

\* version, err := TLSStringToTLSConfigVersion(input)
ConvertTLS ==
    /\ ~tlsResult.returned
    /\ LET r == TLSStringToTLSConfigVersion(tlsInput)
       IN tlsResult' = [returned |-> TRUE, version |-> r.version, err |-> r.err]
    /\ UNCHANGED tlsInput

\* The next call, with another string.
NextTLSInput(input) ==
    /\ tlsResult.returned
    /\ tlsInput' = input
    /\ tlsResult' = NoTLSResult

NextTLS ==
    \/ ConvertTLS /\ UNCHANGED otherThanTLS
    \/ \E input \in TLSInputs : NextTLSInput(input) /\ UNCHANGED otherThanTLS

-----------------------------------------------------------------------------
(* configuration: NewDefaultSources and the SecretsSource                  *)

\* Bound of the model: the longest list of YAML file paths.
MaxPaths == 2

Paths == {"configuration.yml", "override.yml"}

\* The file path lists of up to n paths.
PathLists(n) == UNION {[1..k -> Paths] : k \in 0..n}

\* The configuration keys that can come from a secret, in the order of koanf.Keys().
SecretKeys == <<"jwt_secret", "session.secret">>

\* The values of a koanf key: none, a string, or a value that is no string.
Absent == [kind |-> "absent", str |-> ""]
StringValue(str) == [kind |-> "string", str |-> str]
NonString == [kind |-> "map", str |-> ""]

\* What the target koanf can hold for the keys before the secrets are merged.
TargetKoanfs ==
    [{SecretKeys[i] : i \in 1..Len(SecretKeys)} ->
        {Absent, StringValue(""), StringValue("from yaml"), NonString}]

\* What Load finds for a key: no secret, a secret it reads, or one it cannot read.
LoadOutcomes ==
    [{SecretKeys[i] : i \in 1..Len(SecretKeys)} -> {"none", "read", "unreadable"}]

\* koanf.New(".")
EmptyKoanf == [k \in {SecretKeys[i] : i \in 1..Len(SecretKeys)} |-> Absent]

\* ko.Merge(other): the keys of other replace those of ko.
KoanfMerge(target, other) ==
    [k \in DOMAIN target |-> IF other[k] # Absent THEN other[k] ELSE target[k]]

\* s.koanf.Keys(): the keys it holds, sorted.
KoanfKeys(koanf) == SelectSeq(SecretKeys, LAMBDA k : koanf[k] # Absent)

\* schema.NewStructValidator(), a nil *StructValidator, Push and HasErrors.
NewStructValidator == [nil |-> FALSE, errors |-> <<>>]
NilValidator == [nil |-> TRUE, errors |-> <<>>]
Push(validator, err) == [validator EXCEPT !.errors = Append(@, err)]
HasErrors(validator) == Len(validator.errors) > 0

\* fmt.Errorf(errFmtSecretAlreadyDefined, key)
SecretAlreadyDefined(key) == <<"secret already defined", key>>

\* The error the secrets callback pushes for a secret it cannot read.
SecretUnreadable(key) == <<"secret unreadable", key>>

\* Name() of the sources.
YAMLFileSourceName(path) == <<"yaml file", path>>
EnvironmentSourceName == <<"environment">>
SecretsSourceName == <<"secrets">>

\* NewYAMLFileSources(paths): one source per path, in the order of the paths.
NewYAMLFileSources(paths) == [i \in 1..Len(paths) |-> YAMLFileSourceName(paths[i])]

\* NewDefaultSources(filePaths)
NewDefaultSources(filePaths) ==
    Append(Append(NewYAMLFileSources(filePaths), EnvironmentSourceName), SecretsSourceName)

\* NewSecretsSource()
NewSecretsSource == [pc |-> "new", koanf |-> EmptyKoanf, validator |-> NewStructValidator,
                     got |-> NilValidator]

InitSourcesWith(target) ==
    /\ sources = [filePaths |-> <<>>, list |-> <<>>]
    /\ ko = target
    /\ secrets = NewSecretsSource

InitSources == \E target \in TargetKoanfs : InitSourcesWith(target)

\* sources := NewDefaultSources(filePaths)
CallNewDefaultSources(filePaths) ==
    /\ sources.list = <<>>
    /\ sources' = [filePaths |-> filePaths, list |-> NewDefaultSources(filePaths)]
    /\ UNCHANGED <<ko, secrets>>

\* The loop over a list of keys that pushes one error for each, in their order.
RECURSIVE PushAll(_, _)
PushAll(validator, errs) ==
    IF errs = <<>> THEN validator
    ELSE PushAll(Push(validator, Head(errs)), Tail(errs))

\* The errors Load and Merge make for a list of keys.
UnreadableErrors(keys) == [i \in 1..Len(keys) |-> SecretUnreadable(keys[i])]
AlreadyDefinedErrors(keys) == [i \in 1..Len(keys) |-> SecretAlreadyDefined(keys[i])]

\* SecretsSource.Load(): the secrets that can be read go into s.koanf, and the
\* callback pushes an error to s.validator for each that cannot.
SecretsLoad(found) ==
    /\ secrets.pc = "new"
    /\ secrets' = [secrets EXCEPT
          !.pc = "loaded",
          !.koanf = [k \in DOMAIN found |->
                        IF found[k] = "read" THEN StringValue("from secret") ELSE Absent],
          !.validator = PushAll(@, UnreadableErrors(
                                       SelectSeq(SecretKeys, LAMBDA k : found[k] = "unreadable")))]
    /\ UNCHANGED <<sources, ko>>

\* The secret keys the target already defines with a non-empty string:
\* value, ok := ko.Get(key).(string); ok && value != ""
AlreadyDefined(koanf, target) ==
    SelectSeq(KoanfKeys(koanf), LAMBDA k : target[k].kind = "string" /\ target[k].str # "")

\* Merge that keeps its validator when it holds no error.
SecretsMerge_KeepsValidator ==
    /\ secrets.pc \in {"new", "loaded"}
    /\ secrets' = [secrets EXCEPT
          !.pc = "merged",
          !.validator = PushAll(secrets.validator,
                                AlreadyDefinedErrors(AlreadyDefined(secrets.koanf, ko)))]
    /\ ko' = KoanfMerge(ko, secrets.koanf)
    /\ UNCHANGED sources

\* SecretsSource.Merge(ko)
SecretsMerge ==
    /\ secrets.pc \in {"new", "loaded"}
    /\ LET pushed == PushAll(secrets.validator,
                             AlreadyDefinedErrors(AlreadyDefined(secrets.koanf, ko)))
       IN secrets' = [secrets EXCEPT
             !.pc = "merged",
             !.validator = IF ~HasErrors(pushed) THEN NilValidator ELSE pushed]
    /\ ko' = KoanfMerge(ko, secrets.koanf)
    /\ UNCHANGED sources

\* SecretsSource.Validator(), called after the merge.
SecretsValidator ==
    /\ secrets.pc = "merged"
    /\ secrets' = [secrets EXCEPT !.pc = "Validator() returned", !.got = secrets.validator]
    /\ UNCHANGED <<sources, ko>>

NextSources ==
    \/ \E filePaths \in PathLists(MaxPaths) :
          CallNewDefaultSources(filePaths) /\ UNCHANGED otherThanSources
    \/ \E found \in LoadOutcomes : SecretsLoad(found) /\ UNCHANGED otherThanSources
    \/ SecretsMerge /\ UNCHANGED otherThanSources
    \/ SecretsValidator /\ UNCHANGED otherThanSources

-----------------------------------------------------------------------------
(* Specifications                                                          *)

\* One GET /api/user/info request; the regulator is idle.
IdleRegulation == InitRegulationWith([max_retries |-> 2, find_time |-> 2, ban_time |-> 2])

IdleAccessControl ==
    InitAccessControlWith([rules |-> <<DomainRule(FALSE, SecureHost, "two_factor")>>,
                           default_policy |-> "deny"])

IdleTLS == InitTLSWith(TLS12)

IdleSources == InitSourcesWith(EmptyKoanf)

Init ==
    /\ InitInfo
    /\ IdleRegulation
    /\ IdleAccessControl
    /\ InitPost
    /\ InitKeys
    /\ IdleTLS
    /\ IdleSources

Next == NextInfo

Spec == Init /\ [][Next]_vars

\* Concurrent login requests against the regulator; no user-info request.
InitReg ==
    /\ InitInfo /\ InitRegulation /\ IdleAccessControl /\ InitPost /\ InitKeys /\ IdleTLS
    /\ IdleSources

SpecRegulation == InitReg /\ [][NextRegulation]_vars

\* Concurrent Evaluate calls against a RuleSet loaded at startup.
InitAcl ==
    /\ InitInfo /\ IdleRegulation /\ InitAccessControl /\ InitPost /\ InitKeys /\ IdleTLS
    /\ IdleSources

SpecAccessControl == InitAcl /\ [][NextAccessControl]_vars

\* MethodPreferencePost serving the sessions' requests.
SpecPost == Init /\ [][NextPost]_vars

\* The KeyManager built at startup and then called by the threads.
SpecKeys == Init /\ [][NextKeys]_vars

\* The KeyManager called by one thread at a time.
SpecKeysSequential == Init /\ [][NextKeysSequential]_vars

\* TLSStringToTLSConfigVersion applied to the strings of the model.
InitTLSCalls ==
    /\ InitInfo /\ IdleRegulation /\ IdleAccessControl /\ InitPost /\ InitKeys
    /\ InitTLS
    /\ IdleSources

SpecTLS == InitTLSCalls /\ [][NextTLS]_vars

\* The configuration sources built, and the secrets loaded and merged.
InitSrc ==
    /\ InitInfo /\ IdleRegulation /\ IdleAccessControl /\ InitPost /\ InitKeys /\ IdleTLS
    /\ InitSources

SpecSources == InitSrc /\ [][NextSources]_vars

-----------------------------------------------------------------------------
(* Properties of the aggregator                                             *)

\* loadInfo has returned to UserInfoGet.
LoadInfoReturned == pc["main"] \in {"loadInfo returned", "responded"}

\* The elements of a sequence.
Range(s) == {s[i] : i \in 1..Len(s)}

\* Lookup t failed with an error that is not its not-configured sentinel.
RealFailure(t) == lookup[t].err = StoreError(t)

\* A step taken by goroutine t itself (the go statement that starts it is main's).
StepOf(t) == pc[t] # "unborn" /\ pc'[t] # pc[t]

\* The field of UserPreferences that goroutine t is responsible for.
OwnField(t) ==
    CASE t = "method" -> "Method"
      [] t = "u2f" -> "HasU2F"
      [] t = "totp" -> "HasTOTP"

PreferenceFields == {"Method", "HasU2F", "HasTOTP"}

\* C1: loadInfo is a full barrier. Whenever it has returned, all three
\* goroutines have finished, and no later step changes the preferences or the
\* error list.
C1_FullBarrier ==
    /\ [](LoadInfoReturned => \A t \in Tasks : pc[t] = "finished")
    /\ [][LoadInfoReturned => (errors' = errors /\ preferences' = preferences)]_vars

\* C1 witness: loadInfo has returned after one goroutine appended an error and
\* another wrote its field.
C1_Witness ==
    /\ pc["main"] = "loadInfo returned"
    /\ Len(returned) > 0
    /\ preferences.HasTOTP

\* C2: no append is lost. When loadInfo has returned, the error of every
\* lookup that failed with a non-sentinel error is in the returned list, and
\* the list has exactly as many entries as lookups failed.
C2_NoAppendLost ==
    LoadInfoReturned =>
        /\ \A t \in Tasks : RealFailure(t) => StoreError(t) \in Range(returned)
        /\ Len(returned) = Cardinality({t \in Tasks : RealFailure(t)})

\* C3: a returned empty error list means that every lookup completed and none
\* failed with a non-sentinel error.
C3_EmptyMeansSuccess ==
    (LoadInfoReturned /\ returned = <<>>) =>
        \A t \in Tasks : lookup[t].err # "pending" /\ ~RealFailure(t)

\* C3 witness: two lookups failed at once, one append was lost, and the
\* returned list is still not empty.
C3_Witness ==
    /\ LoadInfoReturned
    /\ RealFailure("u2f") /\ RealFailure("totp")
    /\ Len(returned) = 1

\* C4: field disjointness. A step of a goroutine leaves the two fields of the
\* other goroutines unchanged, and a field changes only in a step of the
\* goroutine that owns it.
C4_FieldDisjointness ==
    [][/\ \A t \in Tasks : StepOf(t) =>
            \A f \in PreferenceFields \ {OwnField(t)} : preferences'[f] = preferences[f]
       /\ \A t \in Tasks :
            preferences'[OwnField(t)] # preferences[OwnField(t)] => StepOf(t)]_vars

\* C4 witness: all three goroutines have written their field.
C4_Witness ==
    /\ preferences.Method # ""
    /\ preferences.HasU2F
    /\ preferences.HasTOTP
    /\ \A t \in Tasks : pc[t] = "finished"

\* C5: absence is not an error. A U2F (TOTP) goroutine goes on to append to
\* the error list exactly when its lookup returned an error other than its
\* sentinel, and its append puts that error at the end of the list; when
\* loadInfo has returned, HasU2F (HasTOTP) is true exactly when the lookup
\* succeeded, and after a sentinel the list holds no entry of that lookup.
C5_AbsenceIsNoError ==
    /\ [](LoadInfoReturned =>
            /\ preferences.HasU2F = (lookup["u2f"].err = "nil")
            /\ preferences.HasTOTP = (lookup["totp"].err = "nil")
            /\ \A t \in {"u2f", "totp"} :
                 ~RealFailure(t) =>
                    Range(returned) \cap {StoreError(t), ErrNoU2FDeviceHandle, ErrNoTOTPSecret} = {})
    /\ [][\A t \in {"u2f", "totp"} :
            /\ (pc[t] = "lookup" /\ pc'[t] # "lookup") =>
                  ((pc'[t] = "append read") <=> (lookup'[t].err = StoreError(t)))
            /\ (pc[t] = "append write" /\ pc'[t] # "append write") =>
                  (Len(errors') > 0 /\ errors'[Len(errors')] = StoreError(t))]_vars

\* C5 witness: the U2F lookup returned its sentinel and the TOTP lookup
\* succeeded; nothing was appended.
C5_Witness ==
    /\ LoadInfoReturned
    /\ lookup["u2f"].err = ErrNoU2FDeviceHandle
    /\ lookup["totp"].err = "nil"
    /\ ~preferences.HasU2F
    /\ preferences.HasTOTP
    /\ returned = <<>>

\* C6: no early cancellation. When loadInfo has returned, every goroutine has
\* run its lookup and finished, and each field holds what its own lookup
\* read, whatever the other lookups returned.
C6_NoEarlyCancellation ==
    LoadInfoReturned =>
        /\ \A t \in Tasks : pc[t] = "finished" /\ lookup[t].err # "pending"
        /\ lookup["method"].err = "nil" =>
              preferences.Method =
                 IF lookup["method"].method = "" THEN "totp" ELSE lookup["method"].method
        /\ preferences.HasU2F = (lookup["u2f"].err = "nil")
        /\ preferences.HasTOTP <=> (lookup["totp"].err = "nil")

\* C6 witness: only the U2F lookup failed; Method and HasTOTP hold what their
\* lookups read.
C6_Witness ==
    /\ LoadInfoReturned
    /\ RealFailure("u2f")
    /\ returned = <<StoreError("u2f")>>
    /\ lookup["method"].method = "u2f"
    /\ preferences.Method = "u2f"
    /\ preferences.HasTOTP

-----------------------------------------------------------------------------
(* Properties of the Regulation engine, stated against config.regulation    *)

\* The larger and the smaller of two numbers, and the largest of a set.
Min2(a, b) == IF a <= b THEN a ELSE b
MaxOf(S) == CHOOSE x \in S : \A y \in S : y <= x

\* The positions of h with a timestamp in [t - find_time, t].
InWindow(h, t) ==
    {i \in 1..Len(h) : h[i].timestamp >= t - config.find_time /\ h[i].timestamp <= t}

\* The failures of the window that no success of the window follows.
StreakPositions(h, t) ==
    {i \in InWindow(h, t) : ~h[i].success /\ \A j \in InWindow(h, t) : h[j].success => j < i}

\* The streak has reached max_retries at time t.
ThresholdReached(h, t) == Cardinality(StreakPositions(h, t)) >= config.max_retries

\* The timestamp of the triggering failure, the most recent failure of the streak.
TriggerTime(h, t) == h[MaxOf(StreakPositions(h, t))].timestamp

\* Banned at t as the configuration has it: threshold reached and the ban not yet lapsed.
BannedPerConfig(h, t) ==
    ThresholdReached(h, t) /\ t <= TriggerTime(h, t) + config.ban_time

\* The failures of the whole history that no success follows.
FailuresAfterLastSuccess(h) ==
    {i \in 1..Len(h) : ~h[i].success /\ \A j \in 1..Len(h) : h[j].success => j < i}

\* Request r has its IsBanned answer and has not acted on it yet.
Answered(r) == req[r].pc = "checked" /\ ~req[r].err

InSection(r, u) == req[r].pc \in {"isBanned", "checked"} /\ req[r].user = u

C8_BanTrigger_AsStated ==
    \A r \in Requests : Answered(r) =>
        LET h == history[req[r].user]
            t == req[r].at
        IN /\ ThresholdReached(h, t) =>
                /\ req[r].verdict.banned
                /\ req[r].verdict.bannedUntil = TriggerTime(h, t) + config.ban_time
           /\ ~ThresholdReached(h, t) => ~req[r].verdict.banned

\* C8 amended: whenever the streak in the window has reached max_retries and
\* now has not passed the triggering failure's timestamp plus ban_time,
\* IsBanned answers banned with bannedUntil = triggering failure + ban_time;
\* with a shorter streak it answers not banned.
C8_BanTrigger ==
    \A r \in Requests : Answered(r) =>
        LET h == history[req[r].user]
            t == req[r].at
        IN /\ (ThresholdReached(h, t) /\ t <= TriggerTime(h, t) + config.ban_time) =>
                /\ req[r].verdict.banned
                /\ req[r].verdict.bannedUntil = TriggerTime(h, t) + config.ban_time
           /\ ~ThresholdReached(h, t) => ~req[r].verdict.banned

\* C8 witness: two failures in the window with max_retries = 2, answered
\* banned until the second failure's timestamp plus ban_time.
C8_Witness ==
    \E r \in Requests :
        /\ Answered(r)
        /\ config.max_retries = 2
        /\ Len(history[req[r].user]) = 2
        /\ history[req[r].user][1].timestamp < history[req[r].user][2].timestamp
        /\ req[r].verdict.banned
        /\ req[r].verdict.bannedUntil = history[req[r].user][2].timestamp + config.ban_time

\* C9: a success resets the streak. A history with fewer than max_retries
\* failures after its last success is never answered banned.
C9_ResetOnSuccess ==
    \A r \in Requests : Answered(r) =>
        (Cardinality(FailuresAfterLastSuccess(history[req[r].user])) < config.max_retries
            => ~req[r].verdict.banned)

\* C9 witness: a failure, then (after the ban lapsed) a success, both inside
\* the window, with max_retries = 1: the window holds max_retries failures,
\* and the answer is not banned.
C9_Witness ==
    \E r \in Requests :
        LET h == history[req[r].user] IN
        /\ Answered(r)
        /\ config.max_retries = 1
        /\ Len(h) = 2
        /\ ~h[1].success /\ h[2].success
        /\ InWindow(h, req[r].at) = {1, 2}
        /\ ~req[r].verdict.banned

\* C10: the ban lasts ban_time. When the last recorded attempt, at time T,
\* brought the streak to max_retries, IsBanned answers banned at every now
\* with T <= now < T + ban_time and not banned at every now after T + ban_time.
C10_BanDuration ==
    \A r \in Requests : Answered(r) =>
        LET h == history[req[r].user]
            t == req[r].at
        IN (h # <<>> /\ ThresholdReached(h, h[Len(h)].timestamp)) =>
              /\ t < h[Len(h)].timestamp + config.ban_time => req[r].verdict.banned
              /\ t > h[Len(h)].timestamp + config.ban_time => ~req[r].verdict.banned

C12_ReadFailureDenies ==
    [][\A r \in Requests :
          (req[r].pc = "checked" /\ req[r].err /\ req'[r] # req[r]) =>
             /\ req'[r].pc = "done"
             /\ req'[r].outcome = "denied"
             /\ history' = history]_vars

\* C12 witness: IsBanned has signalled an error to a request for a user whose
\* history is not empty.
C12_Witness ==
    \E r \in Requests :
        /\ req[r].pc = "checked"
        /\ req[r].err
        /\ history[req[r].user] # <<>>

\* C13: recording fails open. When the store fails while RecordAttempt
\* appends, the history stays as it was, the caller still gets the response
\* of the credentials check, and the username's section is left.
C13_FailOpenRecording ==
    [][\A r \in Requests :
          (req[r].pc = "checked" /\ req'[r].pc = "done" /\ req'[r].recordErr) =>
             /\ history' = history
             /\ req'[r].outcome \in {"authenticated", "rejected"}
             /\ lock'[req[r].user] = "free"]_vars

\* C13 witness: a request has been answered "authenticated" although its
\* attempt was dropped, and the store holds nothing.
C13_Witness ==
    \E r \in Requests :
        /\ req[r].pc = "done"
        /\ req[r].recordErr
        /\ req[r].outcome = "authenticated"
        /\ \A u \in Users : history[u] = <<>>


-----------------------------------------------------------------------------
(* Access control: the claims                                              *)

\* The addresses of a CIDR range, listed.
AddressesOf(c) ==
    LET size == Pow2(AddrBits - c.bits)
        first == c.base - (c.base % size)
    IN first..(first + size - 1)

\* Every criterion the rule has is met by the request.
CriteriaHold(rule, q) ==
    /\ \/ ~rule.domain.wildcard /\ q.domain = rule.domain.name
       \/ /\ rule.domain.wildcard
          /\ \E k \in 1..(Len(q.domain) - 1) :
                SubSeq(q.domain, k + 1, Len(q.domain)) = rule.domain.name
    /\ rule.resources # {} =>
          \E p \in rule.resources :
              Len(p) <= Len(q.path) /\ \A k \in 1..Len(p) : q.path[k] = p[k]
    /\ rule.subject.kind = "user" => q.user.name = rule.subject.name
    /\ rule.subject.kind = "group" => rule.subject.name \in q.user.groups
    /\ rule.networks # {} => \E c \in rule.networks : q.ip \in AddressesOf(c)
    /\ rule.methods # {} => q.method \in rule.methods

\* The positions of the rules whose criteria the request meets.
MatchingPositions(rs, q) == {i \in 1..Len(rs.rules) : CriteriaHold(rs.rules[i], q)}

\* The policy of the matching rule of least position, else the default.
FirstMatchPolicy(rs, q) ==
    LET m == MatchingPositions(rs, q)
    IN IF m = {} THEN rs.defaultPolicy
       ELSE rs.rules[CHOOSE i \in m : \A j \in m : i <= j].policy

\* C14: Evaluate returns the policy of the first rule, in configured order,
\* whose every present criterion (domain, resources any-of, subject, networks,
\* methods) matches the request; later rules, however specific or strict, are
\* not consulted; when no rule matches it returns the configured default policy.
C14_FirstMatchWins ==
    \A c \in Callers :
        evals[c].called => evals[c].policy = FirstMatchPolicy(ruleSet, evals[c].request)

\* C14 witness: one caller's request matched two rules, the later one the
\* stricter, and got the policy of the earlier; the other caller's request
\* matched no rule and got the default, which no rule of the list carries.
C14_Witness ==
    /\ evals["c1"].called /\ evals["c2"].called
    /\ \E i, j \in MatchingPositions(ruleSet, evals["c1"].request) :
          /\ i < j
          /\ \A k \in 1..(i - 1) : k \notin MatchingPositions(ruleSet, evals["c1"].request)
          /\ Strictness(ruleSet.rules[j].policy) > Strictness(ruleSet.rules[i].policy)
          /\ evals["c1"].policy = ruleSet.rules[i].policy
    /\ MatchingPositions(ruleSet, evals["c2"].request) = {}
    /\ evals["c2"].policy = ruleSet.defaultPolicy
    /\ \A k \in 1..Len(ruleSet.rules) : ruleSet.rules[k].policy # ruleSet.defaultPolicy

-----------------------------------------------------------------------------
(* The handlers of the user information: the claims                        *)

\* What the client can see of a response: the envelope message, the body, the status.
ClientView(resp) == [message |-> resp.message, body |-> resp.body, ok |-> resp.ok]

\* C16: UserInfoGet sets the JSON body to the assembled preferences exactly when
\* the error list loadInfo returned is empty; otherwise the client gets the
\* generic operation-failed envelope, the same whichever lookups failed, and no body.
C16_BodyIffNoError ==
    pc["main"] = "responded" =>
        /\ (response.body # <<>>) <=> (returned = <<>>)
        /\ returned = <<>> =>
              ClientView(response) = [message |-> "", body |-> <<preferences>>, ok |-> TRUE]
        /\ returned # <<>> =>
              ClientView(response) =
                  [message |-> operationFailedMessage, body |-> <<>>, ok |-> FALSE]

\* C16 witness: the TOTP lookup alone failed with a store error, the
\* preferences hold what the other lookups found, and the client got the
\* generic envelope without a body.
C16_Witness ==
    /\ pc["main"] = "responded"
    /\ returned = <<StoreError("totp")>>
    /\ preferences.Method = "u2f" /\ preferences.HasU2F
    /\ response.message = operationFailedMessage
    /\ response.body = <<>>

\* C17: the store's preferred method of a user changes only by the save of a
\* handler of that user's session, to the method parsed from its body, which
\* is one of PossibleMethods; a 200 is replied only by the step in which the
\* save returned nil and stored that method; every other reply is the failure
\* envelope and stores nothing; and the save is reached only with a body that
\* parsed and a method of PossibleMethods.
C17_OnlyValidatedMethodsStored ==
    /\ [][\A u \in Sessions :
            stored2FA'[u] # stored2FA[u] =>
                /\ post[u].pc = "SavePreferred2FAMethod"
                /\ post[u].body.json /\ post[u].body.method = stored2FA'[u]
                /\ \E i \in 1..Len(PossibleMethods) : PossibleMethods[i] = stored2FA'[u]]_vars
    /\ [][\A u \in Sessions :
            (post'[u].response.ok /\ ~post[u].response.ok) =>
                /\ post[u].pc = "SavePreferred2FAMethod"
                /\ stored2FA'[u] = post[u].body.method
                /\ \E i \in 1..Len(PossibleMethods) : PossibleMethods[i] = post[u].body.method
                /\ post'[u].response.message = ""]_vars
    /\ [][\A u \in Sessions :
            (post'[u].pc = "replied" /\ post[u].pc # "replied" /\ ~post'[u].response.ok) =>
                /\ stored2FA' = stored2FA
                /\ post'[u].response.message = operationFailedMessage]_vars
    /\ [](\A u \in Sessions :
            post[u].pc = "SavePreferred2FAMethod" =>
                /\ post[u].body.json /\ post[u].Method = post[u].body.method
                /\ \E i \in 1..Len(PossibleMethods) : PossibleMethods[i] = post[u].Method)
    /\ [](\A u \in Sessions :
            stored2FA[u] = "" \/ \E i \in 1..Len(PossibleMethods) : PossibleMethods[i] = stored2FA[u])

\* C17 witness: john's body named an unsupported method and was answered with
\* a failure while the store keeps the method of his earlier, valid request;
\* harry's valid request was answered 200 and is stored.
C17_Witness ==
    /\ post["john"].pc = "replied"
    /\ post["john"].body = [json |-> TRUE, method |-> "sms"]
    /\ ~post["john"].response.ok
    /\ stored2FA["john"] = "totp"
    /\ post["harry"].pc = "replied"
    /\ post["harry"].response.ok
    /\ post["harry"].body.method = "u2f"
    /\ stored2FA["harry"] = "u2f"

\* C18: the envelope of a validation failure carries a message that differs
\* from the generic operation-failed message a save failure is answered with.
C18_ValidationMessageDistinct ==
    \A u \in Sessions :
        (post[u].pc = "replied" /\ post[u].response.logged = UnknownMethodError(post[u].Method))
            => post[u].response.message # operationFailedMessage


-----------------------------------------------------------------------------
(* oidc.KeyManager: the claims                                             *)

\* The getters of the active key answer with the key's id and material, without error.
ActiveKeyIs(m, key) ==
    /\ GetActiveKeyID(m) = Thumbprint(key)
    /\ GetActivePrivateKey(m) = [value |-> <<key>>, err |-> "nil"]
    /\ GetActiveKey(m) = [value |-> <<PublicKey(key)>>, err |-> "nil"]
    /\ GetActiveWebKey(m) = [value |-> <<WebKey(key)>>, err |-> "nil"]

\* C19: when AddActiveKey or AddActiveKeyData returns a key k's web key without
\* error, and when NewKeyManager returns a manager for the configured key k,
\* GetActiveKeyID returns k's key id and GetActivePrivateKey, GetActiveKey and
\* GetActiveWebKey return k's material without error.
C19_AddedKeyIsActive ==
    [][/\ \A t \in Threads :
            (/\ kt[t].pc = "AddActiveKey: m.keys[strKeyID] = key"
             /\ kt'[t].pc = "returned" /\ kt'[t].ret.err = "nil")
                => ActiveKeyIs(manager', kt[t].key)
       /\ (~manager.constructed /\ manager'.constructed)
            => \E key \in PrivateKeys :
                  /\ manager'.strategy.PrivateKey = key
                  /\ ActiveKeyIs(manager', key)]_vars


-----------------------------------------------------------------------------
(* utils.TLSStringToTLSConfigVersion: the claim                            *)

\* The supported version strings with their TLS version constants.
SupportedTLSVersions ==
    {<<TLS10, VersionTLS10>>, <<TLS11, VersionTLS11>>,
     <<TLS12, VersionTLS12>>, <<TLS13, VersionTLS13>>}

KeySetIDs(m) == {m.keySet[i].KeyID : i \in 1..Len(m.keySet)}
RegistryIDs(m) == {m.keys[i].id : i \in 1..Len(m.keys)}

\* No two entries of the key set carry the same key id.
KeySetDistinct(m) ==
    \A i, j \in 1..Len(m.keySet) : m.keySet[i].KeyID = m.keySet[j].KeyID => i = j

\* C21: in every interleaving of AddActiveKey calls and readers the key set
\* never holds two entries with the same key id, and the key ids of the key
\* set are the key ids of the keys map.
C21_RegistryConsistent ==
    KeySetDistinct(manager) /\ KeySetIDs(manager) = RegistryIDs(manager)


\* The step in which thread t calls AddActiveKey, directly or from
\* AddActiveKeyData, with a key.
CallsAddActiveKey(t) ==
    /\ kt[t].pc = "idle" /\ kt'[t].pc # "idle"
    /\ kt'[t].op \in {"AddActiveKey", "AddActiveKeyData"}
    /\ kt'[t].key \in PrivateKeys

\* C22: in a sequential run, AddActiveKey with a key whose id is registered
\* returns no web key and the error "key id already exists" and leaves keys,
\* keySet and the active key id as they were; a call with a key whose id is
\* not registered appends one web key of that id to keySet, then one entry to
\* keys, and returns the web key; between calls the two hold the same ids,
\* each once.
C22_DuplicateRejected ==
    /\ [][\A t \in Threads :
            (CallsAddActiveKey(t) /\ Thumbprint(kt'[t].key) \in RegistryIDs(manager)) =>
                /\ kt'[t].pc = "returned"
                /\ kt'[t].ret = [value |-> <<>>, err |-> "key id already exists"]
                /\ manager' = manager]_vars
    /\ [][\A t \in Threads :
            (CallsAddActiveKey(t) /\ Thumbprint(kt'[t].key) \notin RegistryIDs(manager)) =>
                /\ kt'[t].pc \notin {"returned", "fatal error"}
                /\ manager' = manager]_vars
    /\ [][\A t \in Threads :
            (kt[t].pc \notin {"idle", "returned"} /\ manager'.keySet # manager.keySet) =>
                /\ manager'.keySet = Append(manager.keySet, WebKey(kt[t].key))
                /\ manager'.keys = manager.keys
                /\ manager'.activeKeyID = manager.activeKeyID
                /\ kt'[t].pc \notin {"idle", "returned"}]_vars
    /\ [][\A t \in Threads :
            (kt[t].pc \notin {"idle", "returned"} /\ kt'[t].pc = "returned") =>
                /\ kt'[t].ret = [value |-> <<WebKey(kt[t].key)>>, err |-> "nil"]
                /\ manager'.keys = Append(manager.keys,
                                          [id |-> Thumbprint(kt[t].key), key |-> kt[t].key])
                /\ manager'.keySet = manager.keySet
                /\ Len(manager'.keySet) = Len(manager'.keys)
                /\ manager'.activeKeyID = manager.activeKeyID]_vars
    /\ []((\A t \in Threads : kt[t].pc \in {"idle", "returned"}) =>
            /\ KeySetDistinct(manager)
            /\ KeySetIDs(manager) = RegistryIDs(manager)
            /\ Len(manager.keySet) = Len(manager.keys))

\* C22 witness: t2's AddActiveKey(k2) succeeded, then t1's AddActiveKey(k2) was
\* refused, and the registry holds the configured key and k2, each once.
C22_Witness ==
    /\ kt["t2"] = Returned("AddActiveKey", "k2", <<WebKey("k2")>>, "nil")
    /\ kt["t1"] = Returned("AddActiveKey", "k2", <<>>, "key id already exists")
    /\ Len(manager.keySet) = 2 /\ Len(manager.keys) = 2
    /\ KeySetIDs(manager) = {Thumbprint("k1"), Thumbprint("k2")}


-----------------------------------------------------------------------------
(* Aggregator: the preferred method                                        *)

\* C23: whenever loadInfo returns an empty error list, the method lookup did
\* not fail and preferences.Method is non-empty: the stored method when the
\* store returned a non-empty one, the first of PossibleMethods when it
\* returned the empty method. When the method lookup failed, Method is still
\* at its initial value, the goroutine's append put its error at the end of
\* the list, and the returned list is not empty.
C23_PreferredMethodDefault ==
    /\ [](LoadInfoReturned =>
            /\ returned = <<>> =>
                  /\ lookup["method"].err = "nil"
                  /\ preferences.Method # ""
                  /\ lookup["method"].method # "" => preferences.Method = lookup["method"].method
                  /\ lookup["method"].method = "" => preferences.Method = PossibleMethods[1]
            /\ lookup["method"].err \notin {"nil", "pending"} =>
                  /\ preferences.Method = EmptyPreferences.Method
                  /\ returned # <<>>)
    /\ [][(pc["method"] = "append write" /\ pc'["method"] # "append write") =>
            /\ Len(errors') > 0 /\ errors'[Len(errors')] = lookup["method"].err
            /\ preferences'.Method = EmptyPreferences.Method]_vars

\* C23 witness: the store returned the empty method without error, no lookup
\* failed, and loadInfo returned the empty list with Method the first of
\* PossibleMethods.
C23_Witness ==
    /\ LoadInfoReturned
    /\ returned = <<>>
    /\ lookup["method"] = [method |-> "", err |-> "nil"]
    /\ preferences.Method = "totp"


-----------------------------------------------------------------------------
(* configuration: the claim                                                *)

\* The secret keys whose value in the target is a non-empty string.
ConflictingKeys ==
    {k \in DOMAIN ko : secrets.koanf[k] # Absent /\ ko[k].kind = "string" /\ ko[k].str # ""}

\* How often an error is in the validator's list.
Occurrences(errs, e) == Cardinality({i \in 1..Len(errs) : errs[i] = e})

\* C24: SecretsSource.Merge records one error for every secret key the target
\* defines with a non-empty string, and for no other key, keeps the errors of
\* Load, and merges the secrets into the target all the same; after it
\* Validator() is non-nil exactly when Load or Merge recorded an error.
\* NewDefaultSources returns the YAML file sources in the order of the paths,
\* then the environment, then the secrets.
C24_SecretConflicts ==
    /\ [][(secrets.pc \in {"new", "loaded"} /\ secrets'.pc = "merged") =>
            LET recorded == Len(secrets.validator.errors) + Cardinality(ConflictingKeys)
            IN /\ \A k \in DOMAIN ko :
                    Occurrences(secrets'.validator.errors, <<"secret already defined", k>>)
                        = IF k \in ConflictingKeys THEN 1 ELSE 0
               /\ Len(secrets'.validator.errors) = recorded
               /\ \A i \in 1..Len(secrets.validator.errors) :
                    secrets'.validator.errors[i] = secrets.validator.errors[i]
               /\ \A k \in DOMAIN ko :
                    ko'[k] = IF secrets.koanf[k] # Absent THEN secrets.koanf[k] ELSE ko[k]
               /\ ~secrets'.validator.nil <=> recorded > 0]_vars
    /\ [](secrets.pc = "Validator() returned" =>
            /\ secrets.got = secrets.validator
            /\ ~secrets.got.nil <=> Len(secrets.got.errors) > 0)
    /\ [](sources.list # <<>> =>
            /\ Len(sources.list) = Len(sources.filePaths) + 2
            /\ \A i \in 1..Len(sources.filePaths) :
                  sources.list[i] = <<"yaml file", sources.filePaths[i]>>
            /\ sources.list[Len(sources.filePaths) + 1] = <<"environment">>
            /\ sources.list[Len(sources.filePaths) + 2] = <<"secrets">>)

\* C24 witness: both secrets were read, the target defined jwt_secret with a
\* non-empty string, Merge recorded that one conflict and merged both
\* secrets, Validator() returned the validator; the sources were built for two
\* different paths.
C24_Witness ==
    /\ secrets.pc = "Validator() returned"
    /\ ~secrets.got.nil
    /\ secrets.got.errors = <<SecretAlreadyDefined("jwt_secret")>>
    /\ \A k \in DOMAIN ko : ko[k] = StringValue("from secret")
    /\ sources.filePaths = <<"override.yml", "configuration.yml">>
    /\ Len(sources.list) = 4

====
